---- MODULE Spec2Model ----
(***************************************************************************)
(* Versioned travel-plan store (create_travel_plan_version,                *)
(* get_travel_plan_history, travel_plans_paginated) and the API rate       *)
(* limiter (check_rate_limit over api_requests / api_rate_limits), as      *)
(* defined by the SQL migrations of the travel planner.                    *)
(***************************************************************************)
EXTENDS Integers, Sequences, FiniteSets, TLC

VARIABLES
    travel_plans,     \* table travel_plans: sequence of rows, row i has id i
    api_requests,     \* table api_requests: sequence of rows, in insertion order
    api_rate_limits,  \* table api_rate_limits: the set of its rows
    now,              \* NOW(), in seconds
    result,           \* what the most recent call returned (or raised)
    in_flight,        \* per session: the create_travel_plan_version call it
                      \* is running, after its SELECT and before its INSERT
    permits           \* per caller: the service check_rate_limit allowed it
                      \* to call and whose request it has not recorded yet

vars == <<travel_plans, api_requests, api_rate_limits, now, result, in_flight,
          permits>>

(***************************************************************************)
(* Bounds of the model.                                                    *)
(***************************************************************************)
MaxPlans == 3       \* rows of travel_plans
MaxRequests == 3    \* rows of api_requests

(***************************************************************************)
(* SQL values.  Every nullable value is a record [k, v]; k is its type.    *)
(* A jsonb value is one of JSON null, a JSON string or a JSON object       *)
(* (v is the string, or the object's text).                                *)
(***************************************************************************)
NULL == [k |-> "NULL", v |-> ""]
Text(s) == [k |-> "text", v |-> s]
Uuid(s) == [k |-> "uuid", v |-> s]
JNull == [k |-> "jsonb null", v |-> ""]
JString(s) == [k |-> "jsonb string", v |-> s]
JObject(s) == [k |-> "jsonb object", v |-> s]
Boolean(s) == [k |-> "boolean", v |-> s]

\* INTEGER and FLOAT columns: v is the number, 0 in the NULL
NullNumber == [k |-> "NULL", v |-> 0]
Integer(n) == [k |-> "integer", v |-> n]
Float(n) == [k |-> "float", v |-> n]

\* travel_plans.id of row i is i; the NULL parent_id
NULL_ID == 0

\* the database sessions that call create_travel_plan_version side by side,
\* and the in_flight value of a session that is running no call
Sessions == {"s1", "s2"}
Idle == [plan_id |-> NULL_ID]

\* the callers of the rate limiter that run side by side, and the permits
\* value of a caller that holds no allowance
Callers == {"c1", "c2"}
NoPermit == ""

\* the rows of users and of travel_queries (their ids)
users == {"u1", "u2"}
travel_queries == {"q1"}

\* the JSONB and TEXT content columns of travel_plans
JsonbColumns == {"destination", "flights", "accommodation", "transportation",
                 "activities", "budget", "recommendations", "alerts", "metadata"}
ContentColumns == JsonbColumns \cup {"overview"}

\* the keys of the object create_travel_plan_version builds from the parent
PlanKeys == {"user_id", "travel_query_id"} \cup ContentColumns

(***************************************************************************)
(* jsonb operators.  A JSON object is a function from its keys to jsonb    *)
(* values.                                                                 *)
(***************************************************************************)
\* the jsonb value jsonb_build_object stores for an SQL value
to_jsonb(x) ==
    IF x = NULL THEN JNull
    ELSE IF x.k \in {"text", "uuid"} THEN JString(x.v)
    ELSE x

\* left || right on two JSON objects
jsonb_concat(left, right) ==
    [key \in (DOMAIN left) \cup (DOMAIN right) |->
        IF key \in DOMAIN right THEN right[key] ELSE left[key]]

\* obj -> key
jsonb_get(obj, key) == IF key \in DOMAIN obj THEN obj[key] ELSE NULL

\* obj ->> key
jsonb_get_text(obj, key) ==
    LET j == jsonb_get(obj, key)
    IN  IF j = NULL \/ j = JNull THEN NULL ELSE Text(j.v)

\* text :: UUID
cast_uuid(t) == IF t = NULL THEN NULL ELSE Uuid(t.v)

(***************************************************************************)
(* Table travel_plans.                                                     *)
(***************************************************************************)
PlanIds == 1..Len(travel_plans)

\* the foreign keys of a travel_plans row hold
ForeignKeysHold(row) ==
    /\ row.user_id = NULL \/ row.user_id.v \in users
    /\ row.travel_query_id = NULL \/ row.travel_query_id.v \in travel_queries
    /\ row.parent_id = NULL_ID \/ row.parent_id \in PlanIds

\* variant: a new version is written over its parent's row
InsertPlan_InPlace(row) ==
    travel_plans' = IF row.parent_id = NULL_ID
                    THEN Append(travel_plans, row)
                    ELSE [travel_plans EXCEPT ![row.parent_id] = row]

\* variant: parent_id is UNIQUE, a second child of a parent is not stored
InsertPlan_UniqueParent(row) ==
    travel_plans' =
        IF /\ row.parent_id # NULL_ID
           /\ \E i \in PlanIds : travel_plans[i].parent_id = row.parent_id
        THEN travel_plans
        ELSE Append(travel_plans, row)

\* INSERT INTO travel_plans of one row whose id is the fresh one
InsertPlan(row) == travel_plans' = Append(travel_plans, row)

\* variant: the version column has no DEFAULT 1
RootRow_NoVersionDefault(user_id, travel_query_id, fields) ==
    [column \in ContentColumns |->
        IF column \in DOMAIN fields THEN fields[column] ELSE NULL]
    @@ [id |-> Len(travel_plans) + 1,
        user_id |-> user_id,
        travel_query_id |-> travel_query_id,
        version |-> 0,
        parent_id |-> NULL_ID,
        modification_reason |-> NULL,
        created_at |-> now]

\* the row an INSERT naming the columns of `fields` stores: the columns it
\* does not name take their defaults (version 1, everything else NULL)
RootRow(user_id, travel_query_id, fields) ==
    [column \in ContentColumns |->
        IF column \in DOMAIN fields THEN fields[column] ELSE NULL]
    @@ [id |-> Len(travel_plans) + 1,
        user_id |-> user_id,
        travel_query_id |-> travel_query_id,
        version |-> 1,
        parent_id |-> NULL_ID,
        modification_reason |-> NULL,
        created_at |-> now]

\* create_root: a plain INSERT of a plan with no parent (the clock is left
\* to the run: NOW() after the call is the same instant or a later one)
CreateRoot(user_id, travel_query_id, fields) ==
    /\ Len(travel_plans) < MaxPlans
    /\ LET row == RootRow(user_id, travel_query_id, fields)
           call == [op |-> "create_root", user_id |-> user_id,
                    travel_query_id |-> travel_query_id, fields |-> fields]
       IN  IF ForeignKeysHold(row)
           THEN /\ InsertPlan(row)
                /\ result' = call @@ [ok |-> TRUE, id |-> row.id]
           ELSE /\ UNCHANGED travel_plans
                /\ result' = call @@ [ok |-> FALSE,
                                      error |-> "foreign key violation"]
    /\ UNCHANGED <<api_requests, api_rate_limits, in_flight, permits>>

\* SELECT jsonb_build_object(...) of create_travel_plan_version
old_plan(row) == [key \in PlanKeys |-> to_jsonb(row[key])]

\* variant: modification_reason resolves to the parent's column, not to
\* the parameter of the same name
VersionRow_ReasonOfParent(parent, modification_reason, updates) ==
    LET new_plan == jsonb_concat(old_plan(parent), updates)
    IN  [column \in JsonbColumns |-> jsonb_get(new_plan, column)]
        @@ [id |-> Len(travel_plans) + 1,
            user_id |-> cast_uuid(jsonb_get_text(new_plan, "user_id")),
            travel_query_id |-> cast_uuid(jsonb_get_text(new_plan, "travel_query_id")),
            overview |-> jsonb_get_text(new_plan, "overview"),
            parent_id |-> parent.id,
            version |-> parent.version + 1,
            modification_reason |-> parent.modification_reason,
            created_at |-> now]

\* variant: the new row keeps current_version
VersionRow_SameVersion(parent, modification_reason, updates) ==
    LET new_plan == jsonb_concat(old_plan(parent), updates)
    IN  [column \in JsonbColumns |-> jsonb_get(new_plan, column)]
        @@ [id |-> Len(travel_plans) + 1,
            user_id |-> cast_uuid(jsonb_get_text(new_plan, "user_id")),
            travel_query_id |-> cast_uuid(jsonb_get_text(new_plan, "travel_query_id")),
            overview |-> jsonb_get_text(new_plan, "overview"),
            parent_id |-> parent.id,
            version |-> parent.version,
            modification_reason |-> modification_reason,
            created_at |-> now]

\* the row create_travel_plan_version inserts
VersionRow(parent, modification_reason, updates) ==
    LET new_plan == jsonb_concat(old_plan(parent), updates)
    IN  [column \in JsonbColumns |-> jsonb_get(new_plan, column)]
        @@ [id |-> Len(travel_plans) + 1,
            user_id |-> cast_uuid(jsonb_get_text(new_plan, "user_id")),
            travel_query_id |-> cast_uuid(jsonb_get_text(new_plan, "travel_query_id")),
            overview |-> jsonb_get_text(new_plan, "overview"),
            parent_id |-> parent.id,
            version |-> parent.version + 1,
            modification_reason |-> modification_reason,
            created_at |-> now]

\* variant: no IF old_plan IS NULL check, the INSERT goes on with the NULLs
\* the SELECT INTO left (and a parent_id that is not checked)
CreateVersion_NoNotFound(plan_id, modification_reason, updates) ==
    /\ Len(travel_plans) < MaxPlans
    /\ LET call == [op |-> "create_version", plan_id |-> plan_id,
                    modification_reason |-> modification_reason,
                    updates |-> updates]
           missing == [column \in ContentColumns |-> NULL]
                      @@ [id |-> plan_id, user_id |-> NULL,
                          travel_query_id |-> NULL, version |-> 0]
           row == VersionRow(IF plan_id \in PlanIds THEN travel_plans[plan_id]
                             ELSE missing,
                             modification_reason, updates)
       IN  /\ InsertPlan(row)
           /\ result' = call @@ [ok |-> TRUE, id |-> row.id]
    /\ UNCHANGED <<api_requests, api_rate_limits, in_flight, permits>>

\* create_travel_plan_version(plan_id, modification_reason, updates)
CreateVersion(plan_id, modification_reason, updates) ==
    /\ Len(travel_plans) < MaxPlans
    /\ LET call == [op |-> "create_version", plan_id |-> plan_id,
                    modification_reason |-> modification_reason,
                    updates |-> updates]
       IN  IF plan_id \notin PlanIds
           THEN /\ UNCHANGED travel_plans
                /\ result' = call @@ [ok |-> FALSE, error |-> "not found"]
           ELSE LET row == VersionRow(travel_plans[plan_id],
                                      modification_reason, updates)
                IN  IF ForeignKeysHold(row)
                    THEN /\ InsertPlan(row)
                         /\ result' = call @@ [ok |-> TRUE, id |-> row.id]
                    ELSE /\ UNCHANGED travel_plans
                         /\ result' = call @@ [ok |-> FALSE,
                                               error |-> "foreign key violation"]
    /\ UNCHANGED <<api_requests, api_rate_limits, in_flight, permits>>

\* create_travel_plan_version up to its INSERT: SELECT ... INTO old_plan,
\* current_version and the IF old_plan IS NULL check.  `parent` holds the
\* columns the SELECT read, `started` the NOW() of the call's transaction.
BeginVersion(session, plan_id, modification_reason, updates) ==
    /\ in_flight[session] = Idle
    /\ Len(travel_plans) < MaxPlans
    /\ IF plan_id \notin PlanIds
       THEN /\ result' = [op |-> "create_version", plan_id |-> plan_id,
                          modification_reason |-> modification_reason,
                          updates |-> updates,
                          ok |-> FALSE, error |-> "not found"]
            /\ UNCHANGED in_flight
       ELSE /\ in_flight' = [in_flight EXCEPT ![session] =
                   [plan_id |-> plan_id,
                    modification_reason |-> modification_reason,
                    updates |-> updates,
                    parent |-> [key \in PlanKeys \cup {"id", "version"} |->
                                   travel_plans[plan_id][key]],
                    started |-> now]]
            /\ result' = [op |-> "none"]
    /\ UNCHANGED <<travel_plans, api_requests, api_rate_limits, permits>>

\* variant: the row is written by two statements, an INSERT of the content
\* columns and an UPDATE that sets version, parent_id, modification_reason
FinishVersion_TwoStatements(session) ==
    /\ in_flight[session] # Idle
    /\ LET call == in_flight[session]
           row == [VersionRow(call.parent, call.modification_reason,
                              call.updates) EXCEPT !.created_at = call.started]
       IN  IF "new_plan_id" \notin DOMAIN call
           THEN /\ Len(travel_plans) < MaxPlans
                /\ travel_plans' = Append(travel_plans,
                      [row EXCEPT !.version = 1, !.parent_id = NULL_ID,
                                  !.modification_reason = NULL])
                /\ in_flight' = [in_flight EXCEPT ![session] =
                                    call @@ [new_plan_id |-> row.id]]
                /\ result' = [op |-> "none"]
           ELSE /\ travel_plans' =
                      [travel_plans EXCEPT ![call.new_plan_id] =
                          [row EXCEPT !.id = call.new_plan_id]]
                /\ in_flight' = [in_flight EXCEPT ![session] = Idle]
                /\ result' = [op |-> "create_version", plan_id |-> call.plan_id,
                              modification_reason |-> call.modification_reason,
                              updates |-> call.updates,
                              ok |-> TRUE, id |-> call.new_plan_id]
    /\ UNCHANGED <<api_requests, api_rate_limits, permits>>

\* create_travel_plan_version from its INSERT on: new_plan = old_plan ||
\* updates, the one INSERT INTO travel_plans ... RETURNING id, and the return
FinishVersion(session) ==
    /\ in_flight[session] # Idle
    /\ Len(travel_plans) < MaxPlans
    /\ LET call == in_flight[session]
           returned == [op |-> "create_version", plan_id |-> call.plan_id,
                        modification_reason |-> call.modification_reason,
                        updates |-> call.updates]
           row == [VersionRow(call.parent, call.modification_reason,
                              call.updates) EXCEPT !.created_at = call.started]
       IN  IF ForeignKeysHold(row)
           THEN /\ InsertPlan(row)
                /\ result' = returned @@ [ok |-> TRUE, id |-> row.id]
           ELSE /\ UNCHANGED travel_plans
                /\ result' = returned @@ [ok |-> FALSE,
                                          error |-> "foreign key violation"]
    /\ in_flight' = [in_flight EXCEPT ![session] = Idle]
    /\ UNCHANGED <<api_requests, api_rate_limits, permits>>

\* the clock advances to the instant t
AdvanceClock(t) ==
    /\ t > now
    /\ now' = t
    /\ result' = [op |-> "none"]
    /\ UNCHANGED <<travel_plans, api_requests, api_rate_limits, in_flight, permits>>

(***************************************************************************)
(* get_travel_plan_history.                                                *)
(***************************************************************************)
\* the sequences that hold every element of S once, in an order where
\* key never decreases (ORDER BY key; rows with equal keys come in any order)
RECURSIVE OrderBy(_, _)
OrderBy(S, key) ==
    IF S = {} THEN {<<>>}
    ELSE LET first == {x \in S : \A y \in S : key[x] <= key[y]}
         IN  UNION {{<<x>> \o rest : rest \in OrderBy(S \ {x}, key)} : x \in first}

\* WITH RECURSIVE plan_hierarchy: the rows reached from `found` by joining
\* travel_plans.parent_id to the ids already found
RECURSIVE plan_hierarchy(_)
plan_hierarchy(found) ==
    LET children == {i \in PlanIds : travel_plans[i].parent_id \in found}
    IN  IF children \subseteq found THEN found
        ELSE plan_hierarchy(found \cup children)

\* one row of the table get_travel_plan_history returns
HistoryRow(i) ==
    [id |-> travel_plans[i].id,
     version |-> travel_plans[i].version,
     parent_id |-> travel_plans[i].parent_id,
     modification_reason |-> travel_plans[i].modification_reason,
     created_at |-> travel_plans[i].created_at]

PlanVersion(i) == travel_plans[i].version

\* the tables get_travel_plan_history(root_plan_id) can return
get_travel_plan_history(root_plan_id) ==
    LET start == {i \in PlanIds : travel_plans[i].id = root_plan_id}
        ids == OrderBy(plan_hierarchy(start), [i \in PlanIds |-> PlanVersion(i)])
    IN  {[k \in DOMAIN s |-> HistoryRow(s[k])] : s \in ids}

GetHistory(root_plan_id) ==
    /\ \E rows \in get_travel_plan_history(root_plan_id) :
          result' = [op |-> "get_history", root_plan_id |-> root_plan_id,
                     rows |-> rows]
    /\ UNCHANGED <<travel_plans, api_requests, api_rate_limits, now, in_flight, permits>>

(***************************************************************************)
(* View travel_plans_paginated.                                            *)
(***************************************************************************)
\* variant: ORDER BY created_at (ascending)
Age_Ascending(i) == travel_plans[i].created_at

\* newest first: ORDER BY created_at DESC
Age(i) == 0 - travel_plans[i].created_at

\* variant: the windows have no PARTITION BY tp.user_id
travel_plans_paginated_NoPartition(user_id) ==
    LET joined == {i \in PlanIds :
                      /\ travel_plans[i].travel_query_id # NULL
                      /\ travel_plans[i].travel_query_id.v \in travel_queries}
        total == Cardinality(joined)
        OfUser(item) == item.user_id = user_id
    IN  {SelectSeq([k \in DOMAIN s |->
            [id |-> travel_plans[s[k]].id,
             user_id |-> travel_plans[s[k]].user_id,
             travel_query_id |-> travel_plans[s[k]].travel_query_id,
             version |-> travel_plans[s[k]].version,
             parent_id |-> travel_plans[s[k]].parent_id,
             modification_reason |-> travel_plans[s[k]].modification_reason,
             created_at |-> travel_plans[s[k]].created_at,
             next_cursor |-> IF k < total THEN travel_plans[s[k + 1]].id ELSE NULL_ID,
             prev_cursor |-> IF k > 1 THEN travel_plans[s[k - 1]].id ELSE NULL_ID,
             total_user_plans |-> total]], OfUser)
         : s \in OrderBy(joined, [i \in PlanIds |-> Age(i)])}

\* variant: prev_cursor is computed with LEAD, as next_cursor is
travel_plans_paginated_LeadTwice(user_id) ==
    LET joined == {i \in PlanIds :
                      /\ travel_plans[i].travel_query_id # NULL
                      /\ travel_plans[i].travel_query_id.v \in travel_queries}
        partition == {i \in joined : travel_plans[i].user_id = user_id}
        total == Cardinality(partition)
    IN  {[k \in DOMAIN s |->
            [id |-> travel_plans[s[k]].id,
             user_id |-> travel_plans[s[k]].user_id,
             travel_query_id |-> travel_plans[s[k]].travel_query_id,
             version |-> travel_plans[s[k]].version,
             parent_id |-> travel_plans[s[k]].parent_id,
             modification_reason |-> travel_plans[s[k]].modification_reason,
             created_at |-> travel_plans[s[k]].created_at,
             next_cursor |-> IF k < total THEN travel_plans[s[k + 1]].id ELSE NULL_ID,
             prev_cursor |-> IF k < total THEN travel_plans[s[k + 1]].id ELSE NULL_ID,
             total_user_plans |-> total]] : s \in OrderBy(partition, [i \in PlanIds |-> Age(i)])}

\* the rows of the view for one user_id, in the order of its window; the
\* view holds the plans that join a row of travel_queries
travel_plans_paginated(user_id) ==
    LET joined == {i \in PlanIds :
                      /\ travel_plans[i].travel_query_id # NULL
                      /\ travel_plans[i].travel_query_id.v \in travel_queries}
        partition == {i \in joined : travel_plans[i].user_id = user_id}
        total == Cardinality(partition)
    IN  {[k \in DOMAIN s |->
            [id |-> travel_plans[s[k]].id,
             user_id |-> travel_plans[s[k]].user_id,
             travel_query_id |-> travel_plans[s[k]].travel_query_id,
             version |-> travel_plans[s[k]].version,
             parent_id |-> travel_plans[s[k]].parent_id,
             modification_reason |-> travel_plans[s[k]].modification_reason,
             created_at |-> travel_plans[s[k]].created_at,
             next_cursor |-> IF k < total THEN travel_plans[s[k + 1]].id ELSE NULL_ID,
             prev_cursor |-> IF k > 1 THEN travel_plans[s[k - 1]].id ELSE NULL_ID,
             total_user_plans |-> total]] : s \in OrderBy(partition, [i \in PlanIds |-> Age(i)])}

\* list_plans: SELECT * FROM travel_plans_paginated WHERE user_id = ...
ListPlans(user_id) ==
    /\ \E items \in travel_plans_paginated(user_id) :
          result' = [op |-> "list_plans", user_id |-> user_id, items |-> items]
    /\ UNCHANGED <<travel_plans, api_requests, api_rate_limits, now, in_flight, permits>>

(***************************************************************************)
(* Tables api_rate_limits and api_requests, and check_rate_limit.          *)
(***************************************************************************)
RateLimit(service_name, per_minute, per_hour, per_day, cooldown, max_retries) ==
    [service_name |-> service_name,
     requests_per_minute |-> per_minute,
     requests_per_hour |-> per_hour,
     requests_per_day |-> per_day,
     cooldown_period_ms |-> cooldown,
     retry_backoff_factor |-> Float(2),
     max_retries |-> max_retries]

\* INSERT INTO api_rate_limits ... VALUES: the default rate limits
DefaultRateLimits ==
    {RateLimit("openai", Integer(60), Integer(3500), Integer(80000), Integer(1000), Integer(5)),
     RateLimit("tavily", Integer(10), Integer(500), Integer(10000), Integer(2000), Integer(3)),
     RateLimit("firecrawl", Integer(5), Integer(250), Integer(5000), Integer(3000), Integer(3)),
     RateLimit("skyscanner", Integer(5), Integer(200), Integer(4000), Integer(5000), Integer(3)),
     RateLimit("booking", Integer(3), Integer(150), Integer(3000), Integer(5000), Integer(3)),
     RateLimit("airbnb", Integer(3), Integer(150), Integer(3000), Integer(5000), Integer(3)),
     RateLimit("hotels", Integer(5), Integer(200), Integer(4000), Integer(5000), Integer(3)),
     RateLimit("google_maps", Integer(10), Integer(600), Integer(12000), Integer(2000), Integer(3)),
     RateLimit("google_flights", Integer(5), Integer(200), Integer(4000), Integer(5000), Integer(3)),
     RateLimit("tripadvisor", Integer(5), Integer(200), Integer(4000), Integer(5000), Integer(3))}

\* variant: ON CONFLICT (service_name) DO NOTHING
SeedRateLimits_DoNothing ==
    /\ api_rate_limits' = api_rate_limits \cup
          {row \in DefaultRateLimits :
              \A old \in api_rate_limits : old.service_name # row.service_name}
    /\ result' = [op |-> "seed"]
    /\ UNCHANGED <<travel_plans, api_requests, now, in_flight, permits>>

\* the migration run again: INSERT INTO api_rate_limits ... VALUES ...
\* ON CONFLICT (service_name) DO UPDATE SET every limit = EXCLUDED's
SeedRateLimits ==
    /\ api_rate_limits' =
          {old \in api_rate_limits :
              \A row \in DefaultRateLimits : row.service_name # old.service_name}
          \cup DefaultRateLimits
    /\ result' = [op |-> "seed"]
    /\ UNCHANGED <<travel_plans, api_requests, now, in_flight, permits>>

\* an operator's UPDATE of the row of one service (service_name is UNIQUE)
UpdateRateLimit(row) ==
    /\ \E old \in api_rate_limits : old.service_name = row.service_name
    /\ api_rate_limits' =
          {old \in api_rate_limits : old.service_name # row.service_name} \cup {row}
    /\ result' = [op |-> "none"]
    /\ UNCHANGED <<travel_plans, api_requests, now, in_flight, permits>>

\* variant: the service's newest entry is overwritten when it has one
RecordRequest_Upsert(service_name, success) ==
    /\ Len(api_requests) < MaxRequests
    /\ LET mine == {i \in DOMAIN api_requests :
                       api_requests[i].service_name = service_name}
           newest == CHOOSE i \in mine : \A j \in mine : j <= i
           entry == [id |-> Len(api_requests) + 1,
                     service_name |-> service_name,
                     request_time |-> now,
                     success |-> success]
       IN  /\ api_requests' =
                 IF mine = {} THEN Append(api_requests, entry)
                 ELSE [api_requests EXCEPT ![newest] =
                          [entry EXCEPT !.id = newest]]
           /\ result' = [op |-> "record", id |-> Len(api_requests')]
    /\ UNCHANGED <<travel_plans, api_rate_limits, now, in_flight, permits>>

\* record: INSERT INTO api_requests, request_time DEFAULT NOW()
RecordRequest(service_name, success) ==
    /\ Len(api_requests) < MaxRequests
    /\ api_requests' = Append(api_requests,
          [id |-> Len(api_requests) + 1,
           service_name |-> service_name,
           request_time |-> now,
           success |-> success])
    /\ result' = [op |-> "record", id |-> Len(api_requests) + 1]
    /\ UNCHANGED <<travel_plans, api_rate_limits, now, in_flight, permits>>

\* INTERVAL '1 minute', '1 hour', '1 day', in seconds
Minute == 60
Hour == 3600
Day == 86400

\* variant: no AND request_time > NOW() - interval
CountRequests_NoWindow(p_service_name, interval) ==
    Cardinality({i \in DOMAIN api_requests :
                    api_requests[i].service_name = p_service_name})

\* variant: no WHERE service_name = p_service_name
CountRequests_AnyService(p_service_name, interval) ==
    Cardinality({i \in DOMAIN api_requests :
                    api_requests[i].request_time > now - interval})

\* variant: every window is the one-minute window
CountRequests_MinuteWindow(p_service_name, interval) ==
    Cardinality({i \in DOMAIN api_requests :
                    /\ api_requests[i].service_name = p_service_name
                    /\ api_requests[i].request_time > now - Minute})

\* variant: AND success IS NOT NULL
CountRequests_FinalizedOnly(p_service_name, interval) ==
    Cardinality({i \in DOMAIN api_requests :
                    /\ api_requests[i].service_name = p_service_name
                    /\ api_requests[i].request_time > now - interval
                    /\ api_requests[i].success.k # "NULL"})

\* variant: request_time >= NOW() - interval
CountRequests_Inclusive(p_service_name, interval) ==
    Cardinality({i \in DOMAIN api_requests :
                    /\ api_requests[i].service_name = p_service_name
                    /\ api_requests[i].request_time >= now - interval})

\* SELECT COUNT(*) FROM api_requests WHERE service_name = p_service_name
\*   AND request_time > NOW() - interval
CountRequests(p_service_name, interval) ==
    Cardinality({i \in DOMAIN api_requests :
                    /\ api_requests[i].service_name = p_service_name
                    /\ api_requests[i].request_time > now - interval})

\* variant: IF count >= COALESCE(limit, 0)
LimitReached_NullIsZero(count, limit) == count >= limit.v

\* variant: IF count > limit
LimitReached_Above(count, limit) == limit.k # "NULL" /\ count > limit.v

\* IF count >= limit: a NULL limit makes the comparison NULL, which IF
\* takes as not met
LimitReached(count, limit) == limit.k # "NULL" /\ count >= limit.v

\* variant: the factor is left out
Times_Once(cooldown, factor) == cooldown

\* cooldown_period_ms * factor
Times(cooldown, factor) ==
    IF cooldown.k = "NULL" THEN NullNumber ELSE Integer(cooldown.v * factor)

Decision(allowed, cooldown_ms, reason) ==
    [allowed |-> allowed, cooldown_ms |-> cooldown_ms, reason |-> reason]

\* variant: the hour limit is checked before the minute limit
check_rate_limit_HourFirst(p_service_name) ==
    LET found == {row \in api_rate_limits : row.service_name = p_service_name}
        limits == CHOOSE row \in found : TRUE
        minute_count == CountRequests(p_service_name, Minute)
        hour_count == CountRequests(p_service_name, Hour)
        day_count == CountRequests(p_service_name, Day)
    IN  IF found = {} THEN
            Decision(TRUE, Integer(0),
                     "Service not in rate limit table, using default allowance")
        ELSE IF LimitReached(hour_count, limits.requests_per_hour) THEN
            Decision(FALSE, Times(limits.cooldown_period_ms, 5),
                     "Exceeded requests per hour limit")
        ELSE IF LimitReached(minute_count, limits.requests_per_minute) THEN
            Decision(FALSE, limits.cooldown_period_ms,
                     "Exceeded requests per minute limit")
        ELSE IF LimitReached(day_count, limits.requests_per_day) THEN
            Decision(FALSE, Times(limits.cooldown_period_ms, 20),
                     "Exceeded requests per day limit")
        ELSE Decision(TRUE, Integer(0), "Request allowed")

\* variant: the day limit is not checked
check_rate_limit_NoDayLimit(p_service_name) ==
    LET found == {row \in api_rate_limits : row.service_name = p_service_name}
        limits == CHOOSE row \in found : TRUE
        minute_count == CountRequests(p_service_name, Minute)
        hour_count == CountRequests(p_service_name, Hour)
    IN  IF found = {} THEN
            Decision(TRUE, Integer(0),
                     "Service not in rate limit table, using default allowance")
        ELSE IF LimitReached(minute_count, limits.requests_per_minute) THEN
            Decision(FALSE, limits.cooldown_period_ms,
                     "Exceeded requests per minute limit")
        ELSE IF LimitReached(hour_count, limits.requests_per_hour) THEN
            Decision(FALSE, Times(limits.cooldown_period_ms, 5),
                     "Exceeded requests per hour limit")
        ELSE Decision(TRUE, Integer(0), "Request allowed")

\* variant: a service with no row is held to the strictest default
check_rate_limit_NoDefault(p_service_name) ==
    LET found == {row \in api_rate_limits : row.service_name = p_service_name}
        limits == CHOOSE row \in found : TRUE
        minute_count == CountRequests(p_service_name, Minute)
        hour_count == CountRequests(p_service_name, Hour)
        day_count == CountRequests(p_service_name, Day)
    IN  IF found = {} THEN
            Decision(minute_count = 0, Integer(0),
                     "Service not in rate limit table, using default allowance")
        ELSE IF LimitReached(minute_count, limits.requests_per_minute) THEN
            Decision(FALSE, limits.cooldown_period_ms,
                     "Exceeded requests per minute limit")
        ELSE IF LimitReached(hour_count, limits.requests_per_hour) THEN
            Decision(FALSE, Times(limits.cooldown_period_ms, 5),
                     "Exceeded requests per hour limit")
        ELSE IF LimitReached(day_count, limits.requests_per_day) THEN
            Decision(FALSE, Times(limits.cooldown_period_ms, 20),
                     "Exceeded requests per day limit")
        ELSE Decision(TRUE, Integer(0), "Request allowed")

\* the row check_rate_limit(p_service_name) returns
check_rate_limit(p_service_name) ==
    LET found == {row \in api_rate_limits : row.service_name = p_service_name}
        limits == CHOOSE row \in found : TRUE
        minute_count == CountRequests(p_service_name, Minute)
        hour_count == CountRequests(p_service_name, Hour)
        day_count == CountRequests(p_service_name, Day)
    IN  IF found = {} THEN
            Decision(TRUE, Integer(0),
                     "Service not in rate limit table, using default allowance")
        ELSE IF LimitReached(minute_count, limits.requests_per_minute) THEN
            Decision(FALSE, limits.cooldown_period_ms,
                     "Exceeded requests per minute limit")
        ELSE IF LimitReached(hour_count, limits.requests_per_hour) THEN
            Decision(FALSE, Times(limits.cooldown_period_ms, 5),
                     "Exceeded requests per hour limit")
        ELSE IF LimitReached(day_count, limits.requests_per_day) THEN
            Decision(FALSE, Times(limits.cooldown_period_ms, 20),
                     "Exceeded requests per day limit")
        ELSE Decision(TRUE, Integer(0), "Request allowed")

\* variant: an allowed check books the request in the ledger itself
Check_Recording(p_service_name) ==
    /\ result' = [op |-> "check", service_name |-> p_service_name]
                 @@ check_rate_limit(p_service_name)
    /\ api_requests' =
          IF check_rate_limit(p_service_name).allowed
             /\ Len(api_requests) < MaxRequests
          THEN Append(api_requests,
                 [id |-> Len(api_requests) + 1,
                  service_name |-> p_service_name,
                  request_time |-> now,
                  success |-> NULL])
          ELSE api_requests
    /\ UNCHANGED <<travel_plans, api_rate_limits, now, in_flight, permits>>

\* check: SELECT * FROM check_rate_limit(p_service_name)
Check(p_service_name) ==
    /\ result' = [op |-> "check", service_name |-> p_service_name]
                 @@ check_rate_limit(p_service_name)
    /\ UNCHANGED <<travel_plans, api_requests, api_rate_limits, now, in_flight, permits>>

\* a caller that follows the contract asks before its outbound call:
\* SELECT * FROM check_rate_limit(p_service_name), and goes on to the call
\* only when allowed
CheckBeforeCall(caller, p_service_name) ==
    /\ permits[caller] = NoPermit
    /\ result' = [op |-> "check", service_name |-> p_service_name]
                 @@ check_rate_limit(p_service_name)
    /\ permits' = [permits EXCEPT ![caller] =
                      IF check_rate_limit(p_service_name).allowed
                      THEN p_service_name ELSE NoPermit]
    /\ UNCHANGED <<travel_plans, api_requests, api_rate_limits, now, in_flight>>

\* the caller makes the call it was allowed and records its one entry:
\* INSERT INTO api_requests, request_time DEFAULT NOW(), success not yet set
RecordCall(caller) ==
    /\ permits[caller] # NoPermit
    /\ Len(api_requests) < MaxRequests
    /\ api_requests' = Append(api_requests,
          [id |-> Len(api_requests) + 1,
           service_name |-> permits[caller],
           request_time |-> now,
           success |-> NULL])
    /\ permits' = [permits EXCEPT ![caller] = NoPermit]
    /\ result' = [op |-> "record", id |-> Len(api_requests) + 1]
    /\ UNCHANGED <<travel_plans, api_rate_limits, now, in_flight>>

(***************************************************************************)
(* Inputs of the runs.                                                     *)
(***************************************************************************)
Tokyo == JObject("{name: Tokyo}")
Kyoto == JObject("{name: Kyoto}")
Direct == JObject("{carrier: NH}")

RootOwners == {Uuid("u1"), Uuid("u9")}
RootQueries == {Uuid("q1")}
Empty == JObject("{}")
RootFields == {[destination |-> Tokyo],
               [column \in JsonbColumns \ {"destination", "flights"} |-> Empty]
                   @@ [destination |-> Tokyo, flights |-> Direct,
                       overview |-> Text("trip")]}
Reasons == {Text("swap destination")}
UpdateInputs == {<<>>,
                 [destination |-> Kyoto],
                 [flights |-> JNull],
                 [destination |-> Kyoto, overview |-> JString("autumn")],
                 [user_id |-> JString("u2")]}

\* the instants the clock of the rate limiter runs stops at, in seconds
Instants == {59, 60, 3600, 86400}
Services == {"tavily", "unlisted"}
Outcomes == {Boolean("true")}
OperatorLimits ==
    {RateLimit("tavily", Integer(2), Integer(2), Integer(2), Integer(1000), Integer(3)),
     RateLimit("tavily", Integer(1), Integer(2), Integer(3), Integer(1500), Integer(3)),
     RateLimit("tavily", NullNumber, Integer(2), NullNumber, Integer(1000), Integer(3))}

Init ==
    /\ travel_plans = <<>>
    /\ api_requests = <<>>
    /\ api_rate_limits = DefaultRateLimits
    /\ now = 0
    /\ result = [op |-> "none"]
    /\ in_flight = [session \in Sessions |-> Idle]
    /\ permits = [caller \in Callers |-> NoPermit]

\* the clock of the runs of the version chain store: every row is inserted
\* at an instant of its own
LaterAfterInsert == now' = IF travel_plans' # travel_plans THEN now + 1 ELSE now

Next ==
    \/ \E u \in RootOwners, q \in RootQueries, f \in RootFields :
          CreateRoot(u, q, f) /\ LaterAfterInsert
    \/ \E p \in 1..(Len(travel_plans) + 1), r \in Reasons, u \in UpdateInputs :
          CreateVersion(p, r, u) /\ LaterAfterInsert
    \/ \E p \in 1..(Len(travel_plans) + 1) : GetHistory(p)
    \/ \E u \in users : ListPlans(Uuid(u))

Spec == Init /\ [][Next]_vars

\* the runs of the rate limiter
GovNext ==
    \/ \E t \in Instants : AdvanceClock(t)
    \/ \E row \in OperatorLimits : UpdateRateLimit(row)
    \/ SeedRateLimits
    \/ \E s \in Services, o \in Outcomes : RecordRequest(s, o)
    \/ \E s \in Services : Check(s)

GovSpec == Init /\ [][GovNext]_vars

\* the runs of the ledger with calls in flight: success is NULL until the
\* outcome of the call is known
LedgerInstants == {60, 3600}
LedgerServices == {"tavily"}
LedgerOutcomes == {Boolean("true"), Boolean("false"), NULL}
LedgerLimits ==
    {RateLimit("tavily", Integer(2), Integer(3), Integer(3), Integer(1000), Integer(3))}

LedgerNext ==
    \/ \E t \in LedgerInstants : AdvanceClock(t)
    \/ \E row \in LedgerLimits : UpdateRateLimit(row)
    \/ \E s \in LedgerServices, o \in LedgerOutcomes : RecordRequest(s, o)
    \/ \E s \in LedgerServices : Check(s)

LedgerSpec == Init /\ [][LedgerNext]_vars

\* the runs of the listing over plans stored with no owner or no query
ListOwners == {Uuid("u1"), Uuid("u2"), NULL}
ListQueries == {Uuid("q1"), NULL}
ListFields == {[destination |-> Tokyo]}
ListUpdates == {<<>>, [overview |-> JString("autumn")]}

ListNext ==
    \/ \E u \in ListOwners, q \in ListQueries, f \in ListFields :
          CreateRoot(u, q, f) /\ LaterAfterInsert
    \/ \E p \in PlanIds, r \in Reasons, u \in ListUpdates :
          CreateVersion(p, r, u) /\ LaterAfterInsert
    \/ \E u \in users : ListPlans(Uuid(u))

ListSpec == Init /\ [][ListNext]_vars

\* the runs of sessions that call create_travel_plan_version side by side
\* with the readers
RaceFields == {[destination |-> Tokyo]}
RaceUpdates == {<<>>, [destination |-> Kyoto]}

RaceNext ==
    \/ \E f \in RaceFields :
          CreateRoot(Uuid("u1"), Uuid("q1"), f) /\ LaterAfterInsert
    \/ \E s \in Sessions, p \in 1..(Len(travel_plans) + 1),
          r \in Reasons, u \in RaceUpdates :
          BeginVersion(s, p, r, u) /\ LaterAfterInsert
    \/ \E s \in Sessions : FinishVersion(s) /\ LaterAfterInsert
    \/ \E p \in PlanIds : GetHistory(p)
    \/ \E u \in users : ListPlans(Uuid(u))

RaceSpec == Init /\ [][RaceNext]_vars

\* the runs of callers that follow the contract side by side, under a
\* policy the operator has set for tavily
CallerInstants == {30, 60, 90}
CallerServices == {"tavily"}
CallerLimits ==
    {RateLimit("tavily", Integer(1), Integer(2), Integer(3), Integer(1500), Integer(3))}

CallerInit ==
    /\ travel_plans = <<>>
    /\ api_requests = <<>>
    /\ api_rate_limits =
          {row \in DefaultRateLimits : row.service_name \notin CallerServices}
          \cup CallerLimits
    /\ now = 0
    /\ result = [op |-> "none"]
    /\ in_flight = [session \in Sessions |-> Idle]
    /\ permits = [caller \in Callers |-> NoPermit]

CallerNext ==
    \/ \E t \in CallerInstants : AdvanceClock(t)
    \/ \E c \in Callers, s \in CallerServices : CheckBeforeCall(c, s)
    \/ \E c \in Callers : RecordCall(c)

CallerSpec == CallerInit /\ [][CallerNext]_vars

\* the runs of the rate limiter under policies with a limit of 0 and with
\* limits that are NULL
LimitInstants == {60, 3600, 86400}
LimitServices == {"tavily"}
LimitPolicies ==
    {RateLimit("tavily", Integer(1), Integer(2), Integer(3), Integer(1500), Integer(3)),
     RateLimit("tavily", Integer(2), Integer(2), Integer(0), Integer(1000), Integer(3)),
     RateLimit("tavily", Integer(2), NullNumber, Integer(3), Integer(1000), Integer(3)),
     RateLimit("tavily", NullNumber, NullNumber, NullNumber, Integer(1000), Integer(3))}

LimitNext ==
    \/ \E t \in LimitInstants : AdvanceClock(t)
    \/ \E row \in LimitPolicies : UpdateRateLimit(row)
    \/ \E s \in LimitServices, o \in Outcomes : RecordRequest(s, o)
    \/ \E s \in LimitServices : Check(s)

LimitSpec == Init /\ [][LimitNext]_vars

\* the runs of the rate limiter over two services that both have a policy
IsolationInstants == {60}
IsolationServices == {"tavily", "firecrawl"}
IsolationLimits ==
    {RateLimit("tavily", Integer(1), Integer(2), Integer(3), Integer(1500), Integer(3)),
     RateLimit("firecrawl", Integer(1), Integer(2), Integer(2), Integer(3000), Integer(3))}

IsolationNext ==
    \/ \E t \in IsolationInstants : AdvanceClock(t)
    \/ \E row \in IsolationLimits : UpdateRateLimit(row)
    \/ \E s \in IsolationServices, o \in Outcomes : RecordRequest(s, o)
    \/ \E s \in IsolationServices : Check(s)

IsolationSpec == Init /\ [][IsolationNext]_vars

ColumnValue(column, j) ==
    IF column # "overview" THEN j
    ELSE IF j = JNull THEN NULL
    ELSE Text(j.v)

\* C2: shallow merge-patch: every content column of the version that
\* create_version produces holds the value given in field_updates when the
\* key is supplied, and the parent's value unchanged when it is missing.
C2_ShallowMergePatch ==
    (result.op = "create_version" /\ result.ok) =>
        \A column \in ContentColumns :
            travel_plans[result.id][column] =
                IF column \in DOMAIN result.updates
                THEN ColumnValue(column, result.updates[column])
                ELSE travel_plans[result.plan_id][column]

\* C3: plan versions are append-only: no step changes or removes a row
\* that exists, the only steps that change the table are create_root and
\* create_version, and each of them appends one row.
C3_PlanVersionsAppendOnly ==
    [][/\ \A i \in PlanIds :
             /\ i <= Len(travel_plans')
             /\ travel_plans'[i] = travel_plans[i]
       /\ travel_plans' # travel_plans =>
             /\ result'.op \in {"create_root", "create_version"}
             /\ Len(travel_plans') = Len(travel_plans) + 1]_vars

\* a version was created and the history was read and the plans listed
C3_Witness ==
    /\ result.op \in {"get_history", "list_plans"}
    /\ \E i \in PlanIds : travel_plans[i].parent_id # NULL_ID

\* the plan reached from i by following parent_id at most n times, or
\* NULL_ID when that walk has not reached a plan with no parent
RECURSIVE WalkToRoot(_, _)
WalkToRoot(i, n) ==
    IF i \notin PlanIds THEN NULL_ID
    ELSE IF travel_plans[i].parent_id = NULL_ID THEN i
    ELSE IF n = 0 THEN NULL_ID
    ELSE WalkToRoot(travel_plans[i].parent_id, n - 1)

\* C4: walking parent_id backward from any version ends at one root, the
\* parent graph has no cycle, each step decreases version by exactly 1 and
\* a root has version 1.
C4_ChainsAreWellFormed ==
    \A i \in PlanIds :
        /\ WalkToRoot(i, Len(travel_plans)) # NULL_ID
        /\ travel_plans[i].parent_id = NULL_ID => travel_plans[i].version = 1
        /\ travel_plans[i].parent_id # NULL_ID =>
              /\ travel_plans[i].parent_id \in PlanIds
              /\ travel_plans[i].parent_id # i
              /\ travel_plans[i].version =
                    travel_plans[travel_plans[i].parent_id].version + 1

\* a chain of three versions exists
C4_Witness ==
    \E i \in PlanIds :
        /\ travel_plans[i].version = 3
        /\ travel_plans[i].parent_id # NULL_ID
        /\ travel_plans[travel_plans[i].parent_id].parent_id # NULL_ID

\* the versions of the chain that holds version i
ChainOf(i) ==
    LET root == WalkToRoot(i, Len(travel_plans))
    IN  {j \in PlanIds : WalkToRoot(j, Len(travel_plans)) = root}

\* C5: get_history is anchor-independent: called with any version of a
\* chain it returns all versions of the chain from the root onward, a
\* sequence that it also returns for every other version of that chain.
C5_HistoryIsAnchorIndependent ==
    (result.op = "get_history" /\ result.root_plan_id \in PlanIds) =>
        /\ {result.rows[k].id : k \in DOMAIN result.rows} = ChainOf(result.root_plan_id)
        /\ \A b \in ChainOf(result.root_plan_id) :
              result.rows \in get_travel_plan_history(b)

(***************************************************************************)
(* Properties of the rate limit governor, checked under GovSpec.           *)
(***************************************************************************)
\* the policy rows of a service
PoliciesOf(service_name) ==
    {row \in api_rate_limits : row.service_name = service_name}

\* the ledger entries of a service made less than `seconds` ago
InWindow(service_name, seconds) ==
    {i \in DOMAIN api_requests :
        /\ api_requests[i].service_name = service_name
        /\ now - api_requests[i].request_time < seconds}

\* the count of a window has reached the limit / is strictly below it;
\* neither is the case when there is no limit to compare with (NULL)
AtOrOver(count, limit) == limit.k = "integer" /\ count >= limit.v
Below(count, limit) == limit.k = "integer" /\ count < limit.v

MinuteReached(policy) ==
    AtOrOver(Cardinality(InWindow(policy.service_name, 60)), policy.requests_per_minute)
HourReached(policy) ==
    AtOrOver(Cardinality(InWindow(policy.service_name, 3600)), policy.requests_per_hour)
DayReached(policy) ==
    AtOrOver(Cardinality(InWindow(policy.service_name, 86400)), policy.requests_per_day)

\* the cooldown a denial reports: cooldown_period_ms times the multiplier
Cooldown(policy, multiplier) == Integer(policy.cooldown_period_ms.v * multiplier)

\* C6: check on a service that has a policy denies with cooldown_ms =
\* cooldown_period_ms whenever the count of the trailing 60 seconds is
\* greater than or equal to requests_per_minute.
C6_MinuteLimitDenies ==
    result.op = "check" =>
        \A policy \in PoliciesOf(result.service_name) :
            MinuteReached(policy) =>
                /\ result.allowed = FALSE
                /\ result.cooldown_ms = Cooldown(policy, 1)

\* a check found the count of the last minute equal to a limit of 2
C6_Witness ==
    /\ result.op = "check"
    /\ \E policy \in PoliciesOf(result.service_name) :
          /\ policy.requests_per_minute = Integer(2)
          /\ Cardinality(InWindow(result.service_name, 60)) = 2
    /\ result.allowed = FALSE

\* C7: breach priority is minute, then hour, then day: with the minute
\* limit reached the decision is the minute one (multiplier 1) whatever the
\* hour and day counts; an hour decision is returned only when the minute
\* limit is not reached, a day decision only when neither is.
C7_MinuteBeforeHourBeforeDay ==
    result.op = "check" =>
        \A policy \in PoliciesOf(result.service_name) :
            /\ MinuteReached(policy) =>
                  /\ result.reason = "Exceeded requests per minute limit"
                  /\ result.cooldown_ms = Cooldown(policy, 1)
            /\ result.reason = "Exceeded requests per hour limit" =>
                  ~MinuteReached(policy)
            /\ result.reason = "Exceeded requests per day limit" =>
                  ~MinuteReached(policy) /\ ~HourReached(policy)

\* a check found the minute, hour and day limits reached at once
C7_Witness ==
    /\ result.op = "check"
    /\ \E policy \in PoliciesOf(result.service_name) :
          MinuteReached(policy) /\ HourReached(policy) /\ DayReached(policy)
    /\ result.reason = "Exceeded requests per minute limit"

\* C8: with the minute limit not reached and the count of the trailing
\* 3600 seconds greater than or equal to requests_per_hour, check denies
\* with cooldown_ms = cooldown_period_ms * 5.
C8_HourLimitDenies ==
    result.op = "check" =>
        \A policy \in PoliciesOf(result.service_name) :
            (~MinuteReached(policy) /\ HourReached(policy)) =>
                /\ result.allowed = FALSE
                /\ result.cooldown_ms = Cooldown(policy, 5)

\* a check found the hour limit reached by entries older than a minute
C8_Witness ==
    /\ result.op = "check"
    /\ \E policy \in PoliciesOf(result.service_name) :
          /\ policy.requests_per_minute.k = "integer"
          /\ ~MinuteReached(policy)
          /\ HourReached(policy)
    /\ result.reason = "Exceeded requests per hour limit"

\* C9: with neither the minute nor the hour limit reached and the count of
\* the trailing 86400 seconds greater than or equal to requests_per_day,
\* check denies with cooldown_ms = cooldown_period_ms * 20.
C9_DayLimitDenies ==
    result.op = "check" =>
        \A policy \in PoliciesOf(result.service_name) :
            (~MinuteReached(policy) /\ ~HourReached(policy) /\ DayReached(policy)) =>
                /\ result.allowed = FALSE
                /\ result.cooldown_ms = Cooldown(policy, 20)

\* a check found the day limit reached by entries older than an hour
C9_Witness ==
    /\ result.op = "check"
    /\ \E policy \in PoliciesOf(result.service_name) :
          ~MinuteReached(policy) /\ ~HourReached(policy) /\ DayReached(policy)
    /\ result.reason = "Exceeded requests per day limit"

\* C10: check allows exactly when the service has no policy or all three
\* window counts are strictly below their limits, and every allowed
\* decision carries cooldown_ms = 0.
C10_AllowedIffBelowAllLimits ==
    result.op = "check" =>
        /\ result.allowed =
              (\A policy \in PoliciesOf(result.service_name) :
                  /\ Below(Cardinality(InWindow(policy.service_name, 60)),
                           policy.requests_per_minute)
                  /\ Below(Cardinality(InWindow(policy.service_name, 3600)),
                           policy.requests_per_hour)
                  /\ Below(Cardinality(InWindow(policy.service_name, 86400)),
                           policy.requests_per_day))
        /\ result.allowed => result.cooldown_ms = Integer(0)

\* C10 as amended: check allows exactly when the service has no policy or
\* no window whose limit is set (not NULL) has a count that reaches it, and
\* every allowed decision carries cooldown_ms = 0.
C10_AllowedIffNoLimitReached ==
    result.op = "check" =>
        /\ result.allowed =
              (\A policy \in PoliciesOf(result.service_name) :
                  ~MinuteReached(policy) /\ ~HourReached(policy) /\ ~DayReached(policy))
        /\ result.allowed => result.cooldown_ms = Integer(0)

\* a check was allowed for a service whose minute limit is NULL and whose
\* hour count is one below its limit
C10_Witness ==
    /\ result.op = "check"
    /\ result.allowed
    /\ \E policy \in PoliciesOf(result.service_name) :
          /\ policy.requests_per_minute = NullNumber
          /\ policy.requests_per_hour = Integer(2)
          /\ Cardinality(InWindow(result.service_name, 3600)) = 1
Finalized(entries) == {i \in entries : api_requests[i].success # NULL}

\* the decision check returns when the three windows hold these counts
DecisionFor(policy, minute_count, hour_count, day_count) ==
    IF AtOrOver(minute_count, policy.requests_per_minute)
    THEN "Exceeded requests per minute limit"
    ELSE IF AtOrOver(hour_count, policy.requests_per_hour)
    THEN "Exceeded requests per hour limit"
    ELSE IF AtOrOver(day_count, policy.requests_per_day)
    THEN "Exceeded requests per day limit"
    ELSE "Request allowed"

\* C12: ledger entries whose success is pending (NULL) are excluded from
\* the minute, hour and day counts check uses: its decision is the one
\* that the finalized entries of each window give.
C12_PendingEntriesExcluded ==
    result.op = "check" =>
        \A policy \in PoliciesOf(result.service_name) :
            result.reason =
                DecisionFor(policy,
                    Cardinality(Finalized(InWindow(policy.service_name, 60))),
                    Cardinality(Finalized(InWindow(policy.service_name, 3600))),
                    Cardinality(Finalized(InWindow(policy.service_name, 86400))))

\* C12 as amended: every ledger entry of a window counts, whether its
\* success is pending, true or false: the decision of check is the one
\* that all the entries of each window give.
C12_PendingEntriesCounted ==
    result.op = "check" =>
        \A policy \in PoliciesOf(result.service_name) :
            result.reason =
                DecisionFor(policy,
                    Cardinality(InWindow(policy.service_name, 60)),
                    Cardinality(InWindow(policy.service_name, 3600)),
                    Cardinality(InWindow(policy.service_name, 86400)))

\* a check was denied on the minute limit although the finalized entries
\* of the last minute are fewer than the limit
C12_Witness ==
    /\ result.op = "check"
    /\ result.allowed = FALSE
    /\ \E policy \in PoliciesOf(result.service_name) :
          /\ MinuteReached(policy)
          /\ Below(Cardinality(Finalized(InWindow(policy.service_name, 60))),
                   policy.requests_per_minute)

\* the ledger entries of a service whose request_time is strictly later
\* than now - seconds
StrictlyLater(service_name, seconds) ==
    {i \in DOMAIN api_requests :
        /\ api_requests[i].service_name = service_name
        /\ api_requests[i].request_time > now - seconds}

\* C13: an entry counts toward the minute window only while its
\* request_time is strictly later than now - 60 seconds, and likewise for
\* the 3600 and 86400 second windows: a window limit denies only when the
\* entries strictly inside the window reach it, and with every window
\* below its limit check allows.
C13_WindowsAgeOut ==
    result.op = "check" =>
        \A policy \in PoliciesOf(result.service_name) :
            /\ result.reason = "Exceeded requests per minute limit" =>
                  AtOrOver(Cardinality(StrictlyLater(policy.service_name, 60)),
                           policy.requests_per_minute)
            /\ result.reason = "Exceeded requests per hour limit" =>
                  AtOrOver(Cardinality(StrictlyLater(policy.service_name, 3600)),
                           policy.requests_per_hour)
            /\ result.reason = "Exceeded requests per day limit" =>
                  AtOrOver(Cardinality(StrictlyLater(policy.service_name, 86400)),
                           policy.requests_per_day)
            /\ ( /\ Below(Cardinality(StrictlyLater(policy.service_name, 60)),
                          policy.requests_per_minute)
                 /\ Below(Cardinality(StrictlyLater(policy.service_name, 3600)),
                          policy.requests_per_hour)
                 /\ Below(Cardinality(StrictlyLater(policy.service_name, 86400)),
                          policy.requests_per_day) ) => result.allowed = TRUE

\* the entries of a service that are exactly `seconds` old
ExactlyOld(service_name, seconds) ==
    {i \in DOMAIN api_requests :
        /\ api_requests[i].service_name = service_name
        /\ now - api_requests[i].request_time = seconds}

\* a check was allowed with an entry exactly 60 seconds old that, had it
\* counted, would have brought the minute count to the limit
C13_Witness ==
    /\ result.op = "check"
    /\ result.allowed
    /\ \E policy \in PoliciesOf(result.service_name) :
          /\ ExactlyOld(policy.service_name, 60) # {}
          /\ policy.requests_per_minute.k = "integer"
          /\ Cardinality(StrictlyLater(policy.service_name, 60)
                         \cup ExactlyOld(policy.service_name, 60))
                 >= policy.requests_per_minute.v
(***************************************************************************)
(* More properties of the version chain store, checked under Spec.         *)
(***************************************************************************)
\* C14: create_version with a parent id that identifies no existing
\* version fails and inserts nothing: the rows of travel_plans are the same
\* before and after the call.
C14_MissingParentInsertsNothing ==
    [][(result'.op = "create_version" /\ result'.plan_id \notin PlanIds) =>
          /\ result'.ok = FALSE
          /\ result'.error = "not found"
          /\ travel_plans' = travel_plans]_vars

\* a create_version naming an id that no plan has was refused while the
\* table holds plans
C14_Witness ==
    /\ result.op = "create_version"
    /\ result.plan_id \notin PlanIds
    /\ result.ok = FALSE
    /\ travel_plans # <<>>

\* C15: get_history called with an id that identifies no existing version
\* fails with an error; it does not return an empty sequence.
C15_HistoryOfMissingFails ==
    (result.op = "get_history" /\ result.root_plan_id \notin PlanIds) =>
        /\ "error" \in DOMAIN result
        /\ "rows" \notin DOMAIN result

\* the children of version i
ChildrenOf(i) == {c \in PlanIds : travel_plans[c].parent_id = i}

\* C16: each version has at most one child: no two rows share the same
\* non-null parent_id, also after repeated create_version calls that name
\* the same parent.
C16_AtMostOneChild ==
    \A i \in PlanIds : Cardinality(ChildrenOf(i)) <= 1

Leaves(i) == {j \in ChainOf(i) : ChildrenOf(j) = {}}
Latest(i) == {j \in ChainOf(i) :
                \A k \in ChainOf(i) : travel_plans[k].version <= travel_plans[j].version}

\* C18: get_latest is well defined: for every chain the versions with no
\* recorded child are exactly the versions holding the maximum version
\* number of the chain, and there is exactly one of them.
C18_LatestIsWellDefined ==
    \A i \in PlanIds :
        /\ Leaves(i) = Latest(i)
        /\ Cardinality(Leaves(i)) = 1

\* C19: the sequence get_history returns is sorted by version with no gap
\* and no repeated version number: consecutive entries differ in version
\* by exactly 1 and each entry's parent_id is the id of the entry before.
C19_HistoryIsGapless ==
    result.op = "get_history" =>
        \A k \in 1..(Len(result.rows) - 1) :
            /\ result.rows[k + 1].version = result.rows[k].version + 1
            /\ result.rows[k + 1].parent_id = result.rows[k].id

\* the content columns of a plan row
ContentOf(row) == [column \in ContentColumns |-> row[column]]

\* base overridden by the updates: the value of each key supplied, the
\* value of base for every other column
Override(base, updates) ==
    [column \in ContentColumns |->
        IF column \in DOMAIN updates
        THEN ColumnValue(column, updates[column])
        ELSE base[column]]

\* C20: chaining composes updates: with V1 = create_version(P, u1) and
\* V2 = create_version(V1, u2), the content of V2 is the content of P
\* overridden by u1 and then by u2: the union of both for disjoint keys,
\* and u2's value alone for a key that both supply.
C20_ChainedUpdatesCompose ==
    (/\ result.op = "create_version"
     /\ result.ok
     /\ travel_plans[result.plan_id].parent_id # NULL_ID) =>
        LET V2 == travel_plans[result.id]
            V1 == travel_plans[result.plan_id]
            P == travel_plans[V1.parent_id]
            u2 == result.updates
        IN  \A u1 \in UpdateInputs :
                ContentOf(V1) = ContentOf(VersionRow(P, V1.modification_reason, u1)) =>
                    ContentOf(V2) = Override(Override(ContentOf(P), u1), u2)
(***************************************************************************)
(* Properties of the listing, checked under Spec and ListSpec.             *)
(***************************************************************************)
\* the stored rows of an owner; those of them that belong to the listing
\* (the rows stored with a query); of these, the ones created before /
\* after row i
OwnedBy(user_id) == {i \in PlanIds : travel_plans[i].user_id = user_id}
ListedFor(user_id) ==
    {i \in OwnedBy(user_id) : travel_plans[i].travel_query_id # NULL}
OlderThan(i) ==
    {j \in ListedFor(travel_plans[i].user_id) :
        travel_plans[j].created_at < travel_plans[i].created_at}
NewerThan(i) ==
    {j \in ListedFor(travel_plans[i].user_id) :
        travel_plans[j].created_at > travel_plans[i].created_at}

\* the newest of a non-empty set of rows / the oldest, or NULL_ID for none
Newest(rows) ==
    IF rows = {} THEN NULL_ID
    ELSE CHOOSE i \in rows :
            \A j \in rows : travel_plans[j].created_at <= travel_plans[i].created_at
Oldest(rows) ==
    IF rows = {} THEN NULL_ID
    ELSE CHOOSE i \in rows :
            \A j \in rows : travel_plans[i].created_at <= travel_plans[j].created_at

C22_OtherOwnersListingUnchanged ==
    [][\A u \in users :
          (/\ Len(travel_plans') = Len(travel_plans) + 1
           /\ travel_plans'[Len(travel_plans')].user_id # Uuid(u)) =>
              travel_plans_paginated(Uuid(u))' = travel_plans_paginated(Uuid(u))]_vars

\* owner A's rows are listed after a row of another owner was inserted
\* later than two of A's rows
C22_Witness ==
    /\ result.op = "list_plans"
    /\ Len(result.items) = 2
    /\ travel_plans[Len(travel_plans)].user_id # result.user_id
    /\ \A k \in DOMAIN result.items : result.items[k].id < Len(travel_plans)

\* C23: the total count list_plans reports for an owner is the number of
\* all plan version rows stored for that owner, rows whose travel_query_id
\* is null included, and every one of these rows is reported.
C23_TotalCountsEveryRow ==
    result.op = "list_plans" =>
        /\ Len(result.items) = Cardinality(OwnedBy(result.user_id))
        /\ \A k \in DOMAIN result.items :
              result.items[k].total_user_plans = Cardinality(OwnedBy(result.user_id))

\* C26: create_root inserts one row with version = 1 and parent_id = null
\* that carries the owner, the query and the initial fields supplied (a
\* column not supplied is null), and it succeeds when owner and query exist.
C26_CreateRootInsertsRoot ==
    [][result'.op = "create_root" =>
          /\ (result'.user_id.v \in users /\ result'.travel_query_id.v \in travel_queries)
                 => result'.ok = TRUE
          /\ result'.ok = TRUE =>
                /\ Len(travel_plans') = Len(travel_plans) + 1
                /\ SubSeq(travel_plans', 1, Len(travel_plans)) = travel_plans
                /\ LET new == travel_plans'[Len(travel_plans')]
                   IN  /\ new.id = result'.id
                       /\ new.version = 1
                       /\ new.parent_id = NULL_ID
                       /\ new.user_id = result'.user_id
                       /\ new.travel_query_id = result'.travel_query_id
                       /\ \A column \in ContentColumns :
                             new[column] =
                                IF column \in DOMAIN result'.fields
                                THEN result'.fields[column]
                                ELSE NULL]_vars

\* a second root was created, with every content column supplied
C26_Witness ==
    /\ result.op = "create_root"
    /\ result.ok
    /\ result.id > 1
    /\ travel_plans[result.id].flights = Direct
    /\ travel_plans[result.id].version = 1

\* a reference is present and names an existing row
References(value, rows) == value # NULL /\ value.v \in rows

\* C27: create_root fails when owner_id or query_ref is missing or names
\* no existing owner / query, and every stored plan version references an
\* existing owner and an existing query.
C27_EveryPlanHasOwnerAndQuery ==
    /\ (/\ result.op = "create_root"
        /\ ~(/\ References(result.user_id, users)
             /\ References(result.travel_query_id, travel_queries)))
          => result.ok = FALSE
    /\ \A i \in PlanIds :
          /\ References(travel_plans[i].user_id, users)
          /\ References(travel_plans[i].travel_query_id, travel_queries)

(***************************************************************************)
(* Properties of the ledger and of the policies.                           *)
(***************************************************************************)
\* C24: check is read-only: a check, whatever it decides, leaves the
\* ledger and the policy rows as they were; the ledger changes only by a
\* record, which appends one entry.
C24_CheckIsReadOnly ==
    [][/\ result'.op = "check" =>
             /\ api_requests' = api_requests
             /\ api_rate_limits' = api_rate_limits
       /\ api_requests' # api_requests =>
             /\ result'.op = "record"
             /\ Len(api_requests') = Len(api_requests) + 1
             /\ SubSeq(api_requests', 1, Len(api_requests)) = api_requests]_vars

\* an allowed check and a denied check were made over a ledger with entries
C24_Witness ==
    /\ result.op = "check"
    /\ result.allowed = FALSE
    /\ Len(api_requests) >= 2

Limits(row) ==
    <<row.requests_per_minute.v, row.requests_per_hour.v,
      row.requests_per_day.v, row.cooldown_period_ms.v>>

\* C29: there is at most one policy row per service_name, and after the
\* default seeding has run (once or again) the policies are the seeded ones
\* (openai 60/3500/80000 cooldown 1000 max_retries 5, tavily 10/500/10000
\* cooldown 2000, firecrawl 5/250/5000 cooldown 3000): limits an operator
\* changed are overwritten and no row is added.
C29_SeedingIsIdempotent ==
    /\ \A a, b \in api_rate_limits : a.service_name = b.service_name => a = b
    /\ result.op = "seed" =>
          /\ api_rate_limits = DefaultRateLimits
          /\ Cardinality(api_rate_limits) = 10
          /\ \A row \in api_rate_limits :
                /\ row.service_name = "openai" =>
                      Limits(row) = <<60, 3500, 80000, 1000>> /\ row.max_retries.v = 5
                /\ row.service_name = "tavily" =>
                      Limits(row) = <<10, 500, 10000, 2000>>
                /\ row.service_name = "firecrawl" =>
                      Limits(row) = <<5, 250, 5000, 3000>>

\* the seeding ran again over a ledger with entries, at a later instant
C29_Witness ==
    /\ result.op = "seed"
    /\ now > 0
    /\ api_requests # <<>>
    /\ \E row \in api_rate_limits :
          row.service_name = "tavily" /\ row.requests_per_minute = Integer(10)

(***************************************************************************)
(* Properties of create_travel_plan_version running beside the readers,    *)
(* checked under RaceSpec.                                                 *)
(***************************************************************************)
\* the columns of a row of travel_plans
PlanColumns ==
    ContentColumns \cup {"id", "user_id", "travel_query_id", "version",
                         "parent_id", "modification_reason", "created_at"}

\* C30: a reader running beside create_version never sees a new version
\* row without its complete field set, version and parent_id: a step
\* changes no row that was visible, the only row it adds is the complete
\* row of the call that returns in this step, and every row get_history
\* or list_plans reports shows the version and parent_id the table holds.
C30_RowsAppearWhole ==
    [][/\ \A i \in PlanIds :
             i <= Len(travel_plans') /\ travel_plans'[i] = travel_plans[i]
       /\ travel_plans' # travel_plans =>
             /\ Len(travel_plans') = Len(travel_plans) + 1
             /\ result'.op \in {"create_root", "create_version"}
             /\ result'.ok = TRUE
             /\ result'.id = Len(travel_plans')
             /\ LET new == travel_plans'[Len(travel_plans')]
                IN  /\ DOMAIN new = PlanColumns
                    /\ result'.op = "create_version" =>
                          /\ new.parent_id = result'.plan_id
                          /\ new.version = travel_plans[result'.plan_id].version + 1
                          /\ new.modification_reason = result'.modification_reason
                          /\ \A column \in DOMAIN result'.updates :
                                new[column] = ColumnValue(column, result'.updates[column])
       /\ result'.op = "get_history" =>
             \A k \in DOMAIN result'.rows :
                LET seen == result'.rows[k]
                IN  /\ seen.id \in PlanIds
                    /\ seen.version = travel_plans[seen.id].version
                    /\ seen.parent_id = travel_plans[seen.id].parent_id
                    /\ seen.modification_reason = travel_plans[seen.id].modification_reason
       /\ result'.op = "list_plans" =>
             \A k \in DOMAIN result'.items :
                LET seen == result'.items[k]
                IN  /\ seen.id \in PlanIds
                    /\ seen.version = travel_plans[seen.id].version
                    /\ seen.parent_id = travel_plans[seen.id].parent_id]_vars

\* a reader returned rows while both sessions were between the SELECT and
\* the INSERT of a create_version, after an earlier version was stored
C30_Witness ==
    /\ result.op \in {"get_history", "list_plans"}
    /\ \A session \in Sessions : in_flight[session] # Idle
    /\ \E i \in PlanIds : travel_plans[i].parent_id # NULL_ID
(***************************************************************************)
(* More properties of create_travel_plan_version, checked under Spec.      *)
(***************************************************************************)
\* the content columns for which the updates supply null
Cleared(updates) == {column \in ContentColumns \cap DOMAIN updates :
                        updates[column] = JNull}

\* C31: supplying null for a content field clears that field: the new
\* version stores a null value for it, not the parent's value, and every
\* field the updates do not name is carried over from the parent unchanged.
C31_NullClearsField ==
    (/\ result.op = "create_version"
     /\ result.ok
     /\ Cleared(result.updates) # {}) =>
        LET new == travel_plans[result.id]
            parent == travel_plans[result.plan_id]
        IN  /\ \A column \in Cleared(result.updates) :
                  new[column] \in {NULL, JNull}
            /\ \A column \in ContentColumns \ DOMAIN result.updates :
                  new[column] = parent[column]

\* C33: owner preservation: every version create_version creates has the
\* user_id and the travel_query_id of its parent, whatever keys the
\* updates hold, so every version of a chain has those of the root.
C33_OwnerPreserved ==
    \A i \in PlanIds :
        travel_plans[i].parent_id # NULL_ID =>
            /\ travel_plans[i].user_id = travel_plans[travel_plans[i].parent_id].user_id
            /\ travel_plans[i].travel_query_id =
                  travel_plans[travel_plans[i].parent_id].travel_query_id
(***************************************************************************)
(* More properties of the rate limit governor, checked under CallerSpec,   *)
(* LimitSpec and IsolationSpec.                                            *)
(***************************************************************************)
\* the ledger entries of a service in the 60 seconds that end at instant t
TrailingMinute(service_name, t) ==
    {i \in DOMAIN api_requests :
        /\ api_requests[i].service_name = service_name
        /\ api_requests[i].request_time <= t
        /\ api_requests[i].request_time > t - 60}

\* C32: with every caller following the contract (check before each call,
\* go on only when allowed, then record one entry), the ledger entries of
\* a service inside any trailing 60 second window never exceed the
\* service's requests_per_minute, also with callers interleaved.
C32_ThrottledUnderConcurrency ==
    \A policy \in api_rate_limits :
        policy.requests_per_minute.k = "integer" =>
            \A t \in {now} \cup {api_requests[i].request_time : i \in DOMAIN api_requests} :
                Cardinality(TrailingMinute(policy.service_name, t))
                    <= policy.requests_per_minute.v

\* the limit is set and greater than 0 / set to 0
Positive(limit) == limit.k = "integer" /\ limit.v > 0
Zero(limit) == limit.k = "integer" /\ limit.v = 0

\* C34: recovery from denial: under a policy whose limits are all
\* positive, a check made once 86400 seconds have passed since the newest
\* ledger entry of the service is allowed, however many entries there
\* are; under a policy with a limit of 0 every check is denied.
C34_DenialEndsWhenEntriesAge ==
    result.op = "check" =>
        \A policy \in PoliciesOf(result.service_name) :
            /\ ( /\ Positive(policy.requests_per_minute)
                 /\ Positive(policy.requests_per_hour)
                 /\ Positive(policy.requests_per_day)
                 /\ \A i \in DOMAIN api_requests :
                       api_requests[i].service_name = policy.service_name =>
                           now - api_requests[i].request_time >= 86400 )
                  => result.allowed = TRUE
            /\ ( \/ Zero(policy.requests_per_minute)
                 \/ Zero(policy.requests_per_hour)
                 \/ Zero(policy.requests_per_day) )
                  => result.allowed = FALSE

\* a check was allowed over a full ledger whose entries, all a day old,
\* are more than every limit of the policy
C34_Witness ==
    /\ result.op = "check"
    /\ result.allowed
    /\ Len(api_requests) = MaxRequests
    /\ \A i \in DOMAIN api_requests :
          /\ api_requests[i].service_name = result.service_name
          /\ now - api_requests[i].request_time >= 86400
    /\ \E policy \in PoliciesOf(result.service_name) :
          /\ Positive(policy.requests_per_minute)
          /\ Positive(policy.requests_per_day)
          /\ policy.requests_per_day.v <= MaxRequests

\* C35: per-service isolation: recording a ledger entry for another
\* service B, or changing B's policy, changes the decision check returns
\* for service A in no way.
C35_ServicesAreIsolated ==
    [][\A A \in IsolationServices :
          ( /\ now' = now
            /\ PoliciesOf(A)' = PoliciesOf(A)
            /\ \/ /\ Len(api_requests') = Len(api_requests) + 1
                  /\ api_requests'[Len(api_requests')].service_name # A
               \/ api_rate_limits' # api_rate_limits )
          => check_rate_limit(A)' = check_rate_limit(A)]_vars

\* a check of a service was allowed while the entries of the other service
\* in the last minute alone reach its minute limit
C35_Witness ==
    /\ result.op = "check"
    /\ result.allowed
    /\ \E policy \in PoliciesOf(result.service_name) :
          /\ policy.requests_per_minute.k = "integer"
          /\ Cardinality({i \in DOMAIN api_requests :
                            /\ api_requests[i].service_name # result.service_name
                            /\ now - api_requests[i].request_time < 60})
                 >= policy.requests_per_minute.v
    /\ \E other \in api_rate_limits :
          /\ other.service_name \in IsolationServices \ {result.service_name}
          /\ other \in IsolationLimits

\* C38: a policy row whose limit for a window is NULL never denies for
\* that window: check goes on to the next window, and allows when no
\* window whose limit is set has a count that reaches it.
C38_NullLimitNeverDenies ==
    result.op = "check" =>
        \A policy \in PoliciesOf(result.service_name) :
            /\ policy.requests_per_minute.k = "NULL" =>
                  result.reason # "Exceeded requests per minute limit"
            /\ policy.requests_per_hour.k = "NULL" =>
                  result.reason # "Exceeded requests per hour limit"
            /\ policy.requests_per_day.k = "NULL" =>
                  result.reason # "Exceeded requests per day limit"
            /\ ( /\ "NULL" \in {policy.requests_per_minute.k,
                                 policy.requests_per_hour.k,
                                 policy.requests_per_day.k}
                 /\ ~MinuteReached(policy)
                 /\ ~HourReached(policy)
                 /\ ~DayReached(policy) ) => result.allowed = TRUE

\* a check was allowed under a policy with no hour limit while the ledger
\* held entries of the last hour, and the day limit was decided after it
C38_Witness ==
    /\ result.op = "check"
    /\ result.allowed
    /\ \E policy \in PoliciesOf(result.service_name) :
          /\ policy.requests_per_hour = NullNumber
          /\ policy.requests_per_day.k = "integer"
          /\ Cardinality(InWindow(result.service_name, 3600)) = 2
          /\ Cardinality(InWindow(result.service_name, 60)) = 0

(***************************************************************************)
(* More properties of the listing, checked under RaceSpec and ListSpec.    *)
(***************************************************************************)
\* C36: cursor symmetry: for all rows A and B of one owner's listing,
\* A.next_cursor = B.id if and only if B.prev_cursor = A.id, also when
\* rows of the owner share the same created_at.
C36_CursorsAreSymmetric ==
    result.op = "list_plans" =>
        \A a, b \in DOMAIN result.items :
            (result.items[a].next_cursor = result.items[b].id)
                <=> (result.items[b].prev_cursor = result.items[a].id)

\* a listing was returned in which two rows share their created_at
C36_Witness ==
    /\ result.op = "list_plans"
    /\ Len(result.items) >= 3
    /\ \E a, b \in DOMAIN result.items :
          /\ a # b
          /\ result.items[a].created_at = result.items[b].created_at

\* the ids met by following next_cursor through the rows of a listing,
\* from the row `id` on, for at most `fuel` rows
RECURSIVE Follow(_, _, _)
Follow(items, id, fuel) ==
    LET here == {k \in DOMAIN items : items[k].id = id}
    IN  IF here = {} \/ fuel = 0 THEN <<>>
        ELSE <<id>> \o Follow(items, items[CHOOSE k \in here : TRUE].next_cursor,
                               fuel - 1)

\* C37: cursor traversal is complete and finite: from an owner's newest
\* row, following next_cursor visits every plan row of that owner exactly
\* once and ends at a row whose next_cursor is null after exactly
\* total count rows.
C37_TraversalVisitsEveryRow ==
    (result.op = "list_plans" /\ OwnedBy(result.user_id) # {}) =>
        LET mine == OwnedBy(result.user_id)
            newest == {i \in mine : \A j \in mine :
                          travel_plans[j].created_at <= travel_plans[i].created_at}
            start == {k \in DOMAIN result.items :
                         /\ result.items[k].id \in newest
                         /\ result.items[k].prev_cursor = NULL_ID}
        IN  /\ start # {}
            /\ \A k \in start :
                  LET visited == Follow(result.items, result.items[k].id,
                                        Len(travel_plans) + 1)
                  IN  /\ {visited[n] : n \in DOMAIN visited} = mine
                      /\ Len(visited) = Cardinality(mine)
                      /\ \A n \in DOMAIN result.items :
                            result.items[n].total_user_plans = Len(visited)
====
